---- MODULE Spec2Model ----
(***************************************************************************)
(* Model of the HTTP gateway of src/src/mcp_google_sheets/api/             *)
(* http_server.py: the Key Store (load_api_keys), the Authenticator        *)
(* (verify_api_key), the lifespan of the global spreadsheet_context and    *)
(* the endpoint handlers.  The web framework's part of a request (reading  *)
(* the JSON body, resolving Depends(verify_api_key), validating the body   *)
(* against the pydantic model, turning exceptions into responses) is       *)
(* modelled as the framework runs it for the route declarations of the     *)
(* source.                                                                 *)
(***************************************************************************)
EXTENDS Integers, Sequences, FiniteSets, TLC

VARIABLES
    keyFile,             \* what the file at API_KEYS_FILE holds
    API_KEYS,            \* the module global API_KEYS
    spreadsheet_context, \* the module global spreadsheet_context
    pc,                  \* where the lifespan generator stands
    load_result,         \* which branch of load_api_keys ran
    init_result,         \* how the backend lifespan's initialization went
    last,                \* the request whose response is on its way to the
                         \* client: the request, what its handler saw, the response
    calling              \* the request whose handler is inside its backend call

vars == <<keyFile, API_KEYS, spreadsheet_context, pc, load_result, init_result, last,
          calling>>

----------------------------------------------------------------------------
(* Bounds of the model *)

\* longest key file mapping enumerated
MaxEntries == 2

----------------------------------------------------------------------------
(* Values *)

None == "None"
Ctx == "SpreadsheetContext"

\* client ids and secrets a key file may hold
ClientIds == {"", "default", "example_client"}
Secrets == {"", "sk-default-key-change-this"}

\* the X-API-Key header of a request: absent, or a string
NoHeader == [present |-> FALSE, value |-> ""]
Header(s) == [present |-> TRUE, value |-> s]
Headers ==
    {NoHeader} \cup {Header(s) : s \in Secrets \cup {"sk-example-key-12345", "sk-unknown"}}

Entry(c, k) == [cid |-> c, key |-> k]
Entries == {Entry(c, k) : c \in ClientIds, k \in Secrets}

\* a python dict as the sequence of its items, in iteration order
Dict(es) == [kind |-> "dict", items |-> es]
\* a JSON array or string: a value with len() and without items()
NotADict == [kind |-> "list", items |-> <<>>]

\* the default mapping written by load_api_keys
default_keys ==
    Dict(<<Entry("default", "sk-default-key-change-this"),
           Entry("example_client", "sk-example-key-12345")>>)

UniqueIds(es) == \A i, j \in 1..Len(es) : es[i].cid = es[j].cid => i = j

\* JSON objects with at most MaxEntries members (member names are unique)
Mappings ==
    {es \in UNION {[1..n -> Entries] : n \in 0..MaxEntries} : UniqueIds(es)}

\* what the key file can hold when the process starts
FileMissing == [kind |-> "missing", items |-> <<>>]
FileCorrupt == [kind |-> "corrupt", items |-> <<>>]
FileScalar == [kind |-> "scalar", items |-> <<>>]
FileArray == [kind |-> "array", items |-> <<>>]
FileObject(es) == [kind |-> "object", items |-> es]
FileContents ==
    {FileMissing, FileCorrupt, FileScalar, FileArray}
        \cup {FileObject(es) : es \in Mappings}

----------------------------------------------------------------------------
(* Key Store: load_api_keys *)

\* json.load of the key file, followed by len() of the value: the mapping,
\* the non-mapping value, or an exception
JsonLoad(f) ==
    CASE f.kind = "object" -> [raised |-> FALSE, value |-> Dict(f.items)]
      [] f.kind = "array" -> [raised |-> FALSE, value |-> NotADict]
      [] OTHER -> [raised |-> TRUE, value |-> Dict(<<>>)]

\* json.dump(default_keys, f, indent=2): the file as written
JsonDump(d) == FileObject(d.items)

\* the outcomes of opening the missing file for writing and dumping to it
WriteOutcomes == {"written", "open_failed", "dump_failed"}

\* load_api_keys without line 127: the default file is written and API_KEYS
\* is left as it was
load_api_keys_unassigned(f, w) ==
    IF f.kind # "missing"
    THEN LET r == JsonLoad(f) IN
         IF r.raised
         THEN [file |-> f, keys |-> Dict(<<>>), result |-> "parse_error"]
         ELSE [file |-> f, keys |-> r.value, result |-> "loaded"]
    ELSE CASE w = "written" ->
                [file |-> JsonDump(default_keys), keys |-> Dict(<<>>),
                 result |-> "created"]
           [] w = "open_failed" ->
                [file |-> FileMissing, keys |-> Dict(<<>>),
                 result |-> "create_failed"]
           [] OTHER ->
                [file |-> FileCorrupt, keys |-> Dict(<<>>),
                 result |-> "create_failed"]

\* load_api_keys falling back to the default keys when the file does not parse
load_api_keys_defaults_on_error(f, w) ==
    IF f.kind # "missing"
    THEN LET r == JsonLoad(f) IN
         IF r.raised
         THEN [file |-> f, keys |-> default_keys, result |-> "parse_error"]
         ELSE [file |-> f, keys |-> r.value, result |-> "loaded"]
    ELSE CASE w = "written" ->
                [file |-> JsonDump(default_keys), keys |-> default_keys,
                 result |-> "created"]
           [] w = "open_failed" ->
                [file |-> FileMissing, keys |-> Dict(<<>>),
                 result |-> "create_failed"]
           [] OTHER ->
                [file |-> FileCorrupt, keys |-> Dict(<<>>),
                 result |-> "create_failed"]

\* load_api_keys as a function of the file and of how a write goes:
\* the new file, the new API_KEYS, and the branch taken
load_api_keys(f, w) ==
    IF f.kind # "missing"
    THEN LET r == JsonLoad(f) IN
         IF r.raised
         THEN [file |-> f, keys |-> Dict(<<>>), result |-> "parse_error"]
         ELSE [file |-> f, keys |-> r.value, result |-> "loaded"]
    ELSE CASE w = "written" ->
                [file |-> JsonDump(default_keys), keys |-> default_keys,
                 result |-> "created"]
           [] w = "open_failed" ->
                [file |-> FileMissing, keys |-> Dict(<<>>),
                 result |-> "create_failed"]
           [] OTHER ->
                [file |-> FileCorrupt, keys |-> Dict(<<>>),
                 result |-> "create_failed"]

----------------------------------------------------------------------------
(* Authenticator: verify_api_key *)

\* APIKeyHeader(name="X-API-Key", auto_error=False): the header's value, or
\* None when the header is absent or empty
api_key_header(h) == IF h.present /\ h.value # "" THEN h.value ELSE None

\* the loop over API_KEYS.items(): the first client id whose key matches
RECURSIVE FirstMatch(_, _)
FirstMatch(es, k) ==
    IF es = <<>> THEN None
    ELSE IF Head(es).key = k THEN Head(es).cid
    ELSE FirstMatch(Tail(es), k)

Http(code, text) == [kind |-> "http", status |-> code, detail |-> text, client_id |-> ""]
Crash == [kind |-> "crash", status |-> 500, detail |-> "Internal Server Error", client_id |-> ""]
Authenticated(c) == [kind |-> "ok", status |-> 200, detail |-> "", client_id |-> c]

\* verify_api_key: the client id, an HTTPException, or an unhandled error
verify_api_key(keys, api_key) ==
    IF api_key = None \/ api_key = ""
    THEN Http(401, "API Key required")
    ELSE IF keys.kind # "dict"
    THEN Crash
    ELSE LET client_id == FirstMatch(keys.items, api_key) IN
         IF client_id = None \/ client_id = ""
         THEN Http(401, "Invalid API Key")
         ELSE Authenticated(client_id)

----------------------------------------------------------------------------
(* Routes: the request models and the route declarations *)

Tools ==
    {"get_sheet_data", "get_sheet_formulas", "update_cells", "batch_update_cells",
     "add_rows", "create_spreadsheet", "create_sheet", "list_spreadsheets",
     "list_sheets", "share_spreadsheet", "rename_sheet", "copy_sheet"}

EndpointNames == Tools \cup {"health"}

Route(m, req, opt, f) == [method |-> m, required |-> req, optional |-> opt, field |-> f]

\* per route: the HTTP method, the required (Field(...)) and the defaulted
\* fields of its request model, and the name of the result field it returns
Routes ==
    [e \in EndpointNames |->
        CASE e = "get_sheet_data" ->
                Route("POST", {"spreadsheet_id", "sheet"},
                      {"range", "include_grid_data"}, "data")
          [] e = "get_sheet_formulas" ->
                Route("POST", {"spreadsheet_id", "sheet"}, {"range"}, "formulas")
          [] e = "update_cells" ->
                Route("POST", {"spreadsheet_id", "sheet", "range", "data"}, {}, "result")
          [] e = "batch_update_cells" ->
                Route("POST", {"spreadsheet_id", "updates"}, {}, "result")
          [] e = "add_rows" ->
                Route("POST", {"spreadsheet_id", "sheet", "rows"}, {"append"}, "result")
          [] e = "create_spreadsheet" ->
                Route("POST", {"title"}, {}, "spreadsheet")
          [] e = "create_sheet" ->
                Route("POST", {"spreadsheet_id", "title"}, {}, "result")
          [] e = "list_spreadsheets" ->
                Route("GET", {}, {}, "spreadsheets")
          [] e = "list_sheets" ->
                Route("GET", {}, {}, "sheets")
          [] e = "share_spreadsheet" ->
                Route("POST", {"spreadsheet_id", "email_addresses"},
                      {"role", "send_notification"}, "result")
          [] e = "rename_sheet" ->
                Route("POST", {"spreadsheet_id", "old_name", "new_name"}, {}, "result")
          [] e = "copy_sheet" ->
                Route("POST", {"src_spreadsheet", "src_sheet", "dst_spreadsheet"},
                      {"dst_sheet"}, "result")
          [] OTHER -> Route("GET", {}, {}, "status")]

HasBody(e) == Routes[e].method = "POST"

\* a request body: no bytes, bytes that are not JSON, or a JSON object with
\* some fields present, each of its declared type or not
\* the values of its fields are told by `variant`
Variants == {"a", "b"}
NoBody == [kind |-> "absent", present |-> {}, typed |-> TRUE, variant |-> "a"]
Malformed == [kind |-> "malformed", present |-> {}, typed |-> TRUE, variant |-> "a"]
Object(fs, t, v) == [kind |-> "object", present |-> fs, typed |-> t, variant |-> v]

\* the field sets enumerated for a route: all fields, the required ones, and
\* the required ones less one
PresentSets(e) ==
    {Routes[e].required \cup Routes[e].optional, Routes[e].required}
        \cup {Routes[e].required \ {f} : f \in Routes[e].required}

Bodies(e) ==
    IF HasBody(e)
    THEN {NoBody, Malformed,
          Object(Routes[e].required \cup Routes[e].optional, FALSE, "a")}
            \cup {Object(fs, TRUE, v) : fs \in PresentSets(e), v \in Variants}
    ELSE {NoBody}

\* the path parameter of a request: list_sheets/{spreadsheet_id}
NoPath == "-"
Paths(e) == IF e = "list_sheets" THEN Variants ELSE {NoPath}

Request(e, h, p, b) == [endpoint |-> e, header |-> h, path |-> p, body |-> b]

\* the value a request gives to a field: tagged with the field it came from
BoolFields == {"include_grid_data", "append", "send_notification"}
Literal(f, v) ==
    CASE f \in BoolFields -> IF v = "a" THEN "true" ELSE "false"
      [] f = "role" -> IF v = "a" THEN "writer" ELSE "owner"
      [] f = "data" -> IF v = "a" THEN "[[1,2],[3,4]]" ELSE "[[5]]"
      [] OTHER -> v
FieldValue(f, v) == <<f, Literal(f, v)>>

\* the default of a field the request model declares optional
Default_all_none(f) == <<f, "None">>

\* the default a request model declares for a field
Default(f) ==
    <<f, CASE f = "include_grid_data" -> "false"
           [] f = "append" -> "true"
           [] f = "role" -> "reader"
           [] f = "send_notification" -> "true"
           [] OTHER -> "None">>

\* the validated request model: every declared field, given or defaulted
Validated(e, b) ==
    [f \in Routes[e].required \cup Routes[e].optional |->
        IF f \in b.present THEN FieldValue(f, b.variant) ELSE Default(f)]

\* the keyword under which an endpoint passes a request field to its tool
Keyword(e, f) ==
    IF e = "rename_sheet" /\ f = "spreadsheet_id" THEN "spreadsheet" ELSE f

\* the keyword arguments of the endpoint's one backend call, as pairs of
\* keyword and value: the request's fields, the path parameter, and
\* ctx=MockContext(spreadsheet_context)
backend_args(r, ctx) ==
    {<<Keyword(r.endpoint, f), Validated(r.endpoint, r.body)[f]>> :
        f \in Routes[r.endpoint].required \cup Routes[r.endpoint].optional}
      \cup (IF r.endpoint = "list_sheets"
            THEN {<<"spreadsheet_id", FieldValue("spreadsheet_id", r.path)>>}
            ELSE {})
      \cup {<<"ctx", <<"lifespan_context", ctx>>>>}

\* what the backend tool function does when it is called: returns a result
\* or raises an Exception with a text
Results == {"r1", "r2"}
ErrorTexts == {"quota exceeded", "not found"}
Returns(r) == [raised |-> FALSE, value |-> r]
Raises(t) == [raised |-> TRUE, value |-> t]
\* or returns what it was given
Echo == [raised |-> FALSE, value |-> "echo"]
Outcomes ==
    {Returns(r) : r \in Results} \cup {Raises(t) : t \in ErrorTexts} \cup {Echo}

\* what the call does, given its arguments
Called(outcome, args) ==
    IF outcome = Echo
    THEN [raised |-> FALSE, value |-> args, echoed |-> TRUE]
    ELSE outcome

----------------------------------------------------------------------------
(* Responses *)

Response(code, text, c, f, v, n) ==
    [status |-> code, detail |-> text, client_id |-> c, field |-> f,
     result |-> v, calls |-> n]

\* a raised HTTPException, as the framework answers it
HTTPException(code, text) == Response(code, text, "", "", "", 0)

\* a RequestValidationError: the framework's default handler answers 422
RequestValidationError == Response(422, "validation error", "", "", "", 0)

\* an exception no handler catches: the server answers 500
InternalServerError == Response(500, "Internal Server Error", "", "", "", 0)

----------------------------------------------------------------------------
(* Endpoints *)

\* a health check that answers 503 until the context is there
health_check_guarded(ctx) ==
    IF ctx = None
    THEN Response(503, "Service not initialized", "", "", "", 0)
    ELSE Response(200, "healthy", "", "context_initialized", "true", 0)

\* health_check: no dependency, no readiness check, no backend call
health_check(ctx) ==
    Response(200, "healthy", "", "context_initialized",
             IF ctx # None THEN "true" ELSE "false", 0)

\* the except clause answering 500 with a fixed text
backend_error_generic(e) == Response(500, "Internal Server Error", "", "", "", 1)

\* the except clause of a tool endpoint: HTTPException(400, str(e))
backend_error(e) == Response(400, e.value, "", "", "", 1)

\* a tool endpoint that returns every result under "result"
tool_endpoint_one_field(e, client_id, ctx, outcome) ==
    IF ctx = None
    THEN HTTPException(503, "Service not initialized")
    ELSE IF outcome.raised
    THEN backend_error(outcome)
    ELSE Response(200, "", client_id, "result", outcome.value, 1)

\* a tool endpoint without its readiness check
tool_endpoint_unchecked(e, client_id, ctx, outcome) ==
    IF outcome.raised
    THEN backend_error(outcome)
    ELSE Response(200, "", client_id, Routes[e].field, outcome.value, 1)

\* the body of a tool endpoint, once the framework has resolved client_id and
\* validated the request: the readiness check, then one backend call inside
\* try/except
tool_endpoint(e, client_id, ctx, outcome) ==
    IF ctx = None
    THEN HTTPException(503, "Service not initialized")
    ELSE IF outcome.raised
    THEN backend_error(outcome)
    ELSE Response(200, "", client_id, Routes[e].field, outcome.value, 1)

\* validation with every field of the request model optional
body_valid_lax(e, b) == ~HasBody(e) \/ (b.kind = "object" /\ b.typed)

\* validation of the body against the route's request model
body_valid(e, b) ==
    ~HasBody(e)
        \/ (b.kind = "object" /\ Routes[e].required \subseteq b.present /\ b.typed)

\* a tool route that validates the body before it authenticates
tool_route_validate_first(r, keys, ctx, outcome) ==
    IF HasBody(r.endpoint) /\ r.body.kind = "malformed"
    THEN RequestValidationError
    ELSE IF ~body_valid(r.endpoint, r.body) THEN RequestValidationError
    ELSE LET auth == verify_api_key(keys, api_key_header(r.header)) IN
         IF auth.kind = "http" THEN HTTPException(auth.status, auth.detail)
         ELSE IF auth.kind = "crash" THEN InternalServerError
         ELSE tool_endpoint(r.endpoint, auth.client_id, ctx, outcome)

\* the framework's handling of a request to a tool route: the body is read
\* and decoded, the dependency verify_api_key is called, the body is validated
\* against the request model, and the endpoint function runs
tool_route(r, keys, ctx, outcome) ==
    IF HasBody(r.endpoint) /\ r.body.kind = "malformed"
    THEN RequestValidationError
    ELSE LET auth == verify_api_key(keys, api_key_header(r.header)) IN
         IF auth.kind = "http" THEN HTTPException(auth.status, auth.detail)
         ELSE IF auth.kind = "crash" THEN InternalServerError
         ELSE IF ~body_valid(r.endpoint, r.body) THEN RequestValidationError
         ELSE tool_endpoint(r.endpoint, auth.client_id, ctx, outcome)

\* the application: a request to its response
app(r, keys, ctx, outcome) ==
    IF r.endpoint = "health" THEN health_check(ctx)
    ELSE tool_route(r, keys, ctx, outcome)

----------------------------------------------------------------------------
(* State machine *)

\* what a handler read of the globals, and where the lifespan stood
Seen(keys, ctx, phase) == [keys |-> keys, ctx |-> ctx, phase |-> phase]

\* the backend tool function was not called
NotCalled == [raised |-> FALSE, value |-> "not called"]

\* the record of one handled request: the request, what its handler read,
\* the arguments and the outcome of its backend call, and the response
Handled(r, keys, ctx, phase, outcome) ==
    LET args == backend_args(r, ctx)
        done == Called(outcome, args)
        resp == app(r, keys, ctx, done)
    IN  [args |-> IF resp.calls > 0 THEN args ELSE {},
         req |-> r,
         seen |-> Seen(keys, ctx, phase),
         backend |-> IF resp.calls > 0 THEN done ELSE NotCalled,
         resp |-> resp]

NoRequest ==
    [args |-> {},
     req |-> Request("none", NoHeader, NoPath, NoBody),
     seen |-> Seen(Dict(<<>>), None, "start"),
     backend |-> NotCalled,
     resp |-> Response(0, "", "", "", "", 0)]

\* no handler is inside a backend call
NoCall ==
    [req |-> Request("none", NoHeader, NoPath, NoBody),
     seen |-> Seen(Dict(<<>>), None, "start")]

\* the handler of r has passed its checks and called its tool function
Entered(r, keys, ctx, phase) == [req |-> r, seen |-> Seen(keys, ctx, phase)]

\* the request passes authentication, validation and the readiness check
ReachesBackend(r, keys, ctx) ==
    \E outcome \in Outcomes : app(r, keys, ctx, outcome).calls = 1

Init ==
    /\ keyFile \in FileContents
    /\ API_KEYS = Dict(<<>>)
    /\ spreadsheet_context = None
    /\ pc = "start"
    /\ load_result = "not_run"
    /\ init_result = "pending"
    /\ last = NoRequest
    /\ calling = NoCall

\* lifespan, line 163: load_api_keys()
LoadApiKeys ==
    /\ pc = "start"
    /\ \E w \in WriteOutcomes :
          LET r == load_api_keys(keyFile, w) IN
          /\ keyFile' = r.file
          /\ API_KEYS' = r.keys
          /\ load_result' = r.result
    /\ pc' = "initializing"
    /\ UNCHANGED <<spreadsheet_context, init_result, last, calling>>

\* lifespan, lines 167-170: the backend lifespan yields its context, which is
\* stored, and the lifespan yields to the server
Startup ==
    /\ pc = "initializing"
    /\ spreadsheet_context' = Ctx
    /\ init_result' = "context"
    /\ pc' = "serving"
    /\ UNCHANGED <<keyFile, API_KEYS, load_result, last, calling>>

\* the ways the backend lifespan can fail to deliver a context
InitFailures == {"raises", "no_context"}

\* a lifespan that swallows the initialization failure and yields to the server
StartupFails_swallowed ==
    /\ pc = "initializing"
    /\ \E how \in InitFailures : init_result' = how
    /\ pc' = "serving"
    /\ UNCHANGED <<keyFile, API_KEYS, spreadsheet_context, load_result, last, calling>>

\* lifespan, lines 167 and 173: the backend lifespan raises, or ends without
\* a context (then line 173 runs and the lifespan ends without yielding)
StartupFails ==
    /\ pc = "initializing"
    /\ \E how \in InitFailures :
          /\ init_result' = how
          /\ spreadsheet_context' =
                IF how = "no_context" THEN None ELSE spreadsheet_context
    /\ pc' = "startup_failed"
    /\ UNCHANGED <<keyFile, API_KEYS, load_result, last, calling>>

\* lifespan, lines 170-171 and 167: the server resumes the lifespan at
\* shutdown, which asks the backend lifespan for its next item
Shutdown ==
    /\ pc = "serving"
    /\ calling = NoCall
    /\ pc' = "teardown"
    /\ UNCHANGED <<keyFile, API_KEYS, spreadsheet_context, load_result, init_result, last, calling>>

\* lifespan, lines 167 and 173: the backend lifespan ends, the loop is left
\* and the context is released
TeardownDone ==
    /\ pc = "teardown"
    /\ calling = NoCall
    /\ spreadsheet_context' = None
    /\ pc' = "stopped"
    /\ UNCHANGED <<keyFile, API_KEYS, load_result, init_result, last, calling>>

\* lifespan, line 167: the backend lifespan's teardown raises; the exception
\* leaves the lifespan and line 173 does not run
TeardownFails ==
    /\ pc = "teardown"
    /\ calling = NoCall
    /\ pc' = "shutdown_failed"
    /\ UNCHANGED <<keyFile, API_KEYS, spreadsheet_context, load_result, init_result, last, calling>>

\* a handler that reloads the Key Store on every request
HandleRequest_reloading ==
    /\ last = NoRequest
    /\ calling = NoCall
    /\ \E e \in EndpointNames, h \in Headers :
          \E b \in Bodies(e), p \in Paths(e) :
              LET r == Request(e, h, p, b) IN
              /\ ~ReachesBackend(r, API_KEYS, spreadsheet_context)
              /\ last' = Handled(r, API_KEYS, spreadsheet_context, pc, NotCalled)
    /\ API_KEYS' = load_api_keys(keyFile, "written").keys
    /\ UNCHANGED <<keyFile, spreadsheet_context, pc, load_result, init_result, calling>>

\* one request that is answered without a backend call, handled from its
\* arrival to its response while no other handler holds the event loop
HandleRequest ==
    /\ last = NoRequest
    /\ calling = NoCall
    /\ \E e \in EndpointNames, h \in Headers :
          \E b \in Bodies(e), p \in Paths(e) :
              LET r == Request(e, h, p, b) IN
              /\ ~ReachesBackend(r, API_KEYS, spreadsheet_context)
              /\ last' = Handled(r, API_KEYS, spreadsheet_context, pc, NotCalled)
    /\ UNCHANGED <<keyFile, API_KEYS, spreadsheet_context, pc, load_result, init_result,
                   calling>>

\* get_sheet_data, lines 212-220 (and the like): a request passes its checks
\* and its handler calls the tool function, without await, on the event loop
EnterBackendCall ==
    /\ last = NoRequest
    /\ calling = NoCall
    /\ \E e \in Tools, h \in Headers :
          \E b \in Bodies(e), p \in Paths(e) :
              LET r == Request(e, h, p, b) IN
              /\ ReachesBackend(r, API_KEYS, spreadsheet_context)
              /\ calling' = Entered(r, API_KEYS, spreadsheet_context, pc)
    /\ UNCHANGED <<keyFile, API_KEYS, spreadsheet_context, pc, load_result, init_result,
                   last>>

\* lines 220-229: the tool function returns or raises, and the handler
\* builds its response
BackendReturns ==
    /\ calling # NoCall
    /\ \E outcome \in Outcomes :
          last' = Handled(calling.req, calling.seen.keys, calling.seen.ctx,
                          calling.seen.phase, outcome)
    /\ calling' = NoCall
    /\ UNCHANGED <<keyFile, API_KEYS, spreadsheet_context, pc, load_result, init_result>>

\* the response reaches the client
Deliver ==
    /\ last # NoRequest
    /\ last' = NoRequest
    /\ UNCHANGED <<keyFile, API_KEYS, spreadsheet_context, pc, load_result, init_result, calling>>

Next ==
    \/ LoadApiKeys
    \/ Startup
    \/ StartupFails
    \/ Shutdown
    \/ TeardownDone
    \/ TeardownFails
    \/ HandleRequest
    \/ EnterBackendCall
    \/ BackendReturns
    \/ Deliver

Spec == Init /\ [][Next]_vars

----------------------------------------------------------------------------
(* Vocabulary of the properties *)

\* a response is on its way, and it answers a request to a /tools/ route
ToolRequest == last # NoRequest /\ last.req.endpoint \in Tools

\* the request's body, if its route reads one, is decodable JSON (or empty)
Decodable == ~HasBody(last.req.endpoint) \/ last.req.body.kind # "malformed"

\* the request's body has the declared shape of its route
WellFormed ==
    \/ ~HasBody(last.req.endpoint)
    \/ /\ last.req.body.kind = "object"
       /\ Routes[last.req.endpoint].required \subseteq last.req.body.present
       /\ last.req.body.typed

\* the positions of the Key Store's entries whose secret is the presented key
Matches ==
    IF last.req.header.present /\ last.seen.keys.kind = "dict"
    THEN {i \in 1..Len(last.seen.keys.items) :
             last.seen.keys.items[i].key = last.req.header.value}
    ELSE {}

\* the client ids owning the presented key
Owners == {last.seen.keys.items[i].cid : i \in Matches}

\* the request authenticates: a non-empty key, whose first owner has a name
Authenticates ==
    /\ Matches # {}
    /\ last.req.header.value # ""
    /\ \A i \in Matches :
          (\A j \in Matches : i <= j) => last.seen.keys.items[i].cid # ""

----------------------------------------------------------------------------
(* C1 *)

\* C1 (as claimed): every request to a /tools/ route whose X-API-Key header is
\* missing or equals no secret of the Key Store is answered 401 without a
\* backend call, in every lifecycle state.  Stated for the requests whose body
\* is decodable (a body that is not JSON is answered 422 before the
\* Authenticator runs); the code violates it when the key file holds a JSON
\* array: API_KEYS.items() raises and the answer is 500.
C1_UnauthorizedWithoutValidKey ==
    (ToolRequest /\ Decodable /\ Matches = {})
        => (last.resp.status = 401 /\ last.resp.calls = 0)

----------------------------------------------------------------------------
(* C2 *)

\* C2 (as claimed): whenever the presented key equals the secret of some entry
\* of the Key Store mapping, authentication succeeds, and the client_id of a
\* success response is an owner of that key, the empty client id included.
\* Stated for the non-empty keys (the empty key is refused as missing, stored
\* or not); the code rejects the key of the client whose id is the empty
\* string as "Invalid API Key".
C2_StoredKeyAuthenticates ==
    (ToolRequest /\ Decodable /\ Matches # {} /\ last.req.header.value # "")
        => /\ last.resp.status # 401
           /\ last.resp.status = 200 => last.resp.client_id \in Owners

----------------------------------------------------------------------------
(* C3 *)

\* C3: while spreadsheet_context is None, every authenticated and well-formed
\* request to a /tools/ route is answered 503 at once, without a backend call.
C3_NotReadyIsUnavailable ==
    (ToolRequest /\ WellFormed /\ Authenticates /\ last.seen.ctx = None)
        => /\ last.resp.status = 503
           /\ last.resp.calls = 0
           /\ last.backend = NotCalled

\* such a request, handled after shutdown released the context
C3_Witness ==
    /\ ToolRequest /\ WellFormed /\ Authenticates
    /\ last.seen.ctx = None
    /\ last.seen.phase = "stopped"
    /\ last.resp.status = 503

----------------------------------------------------------------------------
(* C4 *)

\* the body is a JSON object that lacks a required field of its route
LacksRequired ==
    /\ ToolRequest /\ HasBody(last.req.endpoint)
    /\ last.req.body.kind = "object"
    /\ ~(Routes[last.req.endpoint].required \subseteq last.req.body.present)

\* C4 (as claimed): a POST request whose body lacks a required field is
\* answered 400 without a backend call.
C4_MissingFieldIsBadRequest ==
    LacksRequired => (last.resp.status = 400 /\ last.resp.calls = 0)

\* C4 (amended): a POST request whose body lacks a required field never
\* reaches the backend; when it authenticates it is answered with the
\* framework's validation error, 422, in every lifecycle state.
C4_MissingFieldIsRejected ==
    LacksRequired
        => /\ last.resp.calls = 0
           /\ last.backend = NotCalled
           /\ last.resp.status # 200
           /\ Authenticates => last.resp.status = 422

\* update_cells without range, authenticated, while the context is Ready
C4_Witness ==
    /\ LacksRequired /\ Authenticates
    /\ last.req.endpoint = "update_cells"
    /\ "range" \notin last.req.body.present
    /\ last.seen.ctx # None
    /\ last.resp.status = 422

----------------------------------------------------------------------------
(* C5 *)

\* C5: when the request is authenticated and well-formed, the context is Ready
\* and the backend operation raises, the answer is 400 with the backend's
\* error text as its message; the backend was called once.
C5_BackendFailureIsBadRequest ==
    /\ (ToolRequest /\ last.backend.raised)
          => /\ last.resp.status = 400
             /\ last.resp.detail = last.backend.value
             /\ last.resp.calls = 1
    /\ (ToolRequest /\ WellFormed /\ Authenticates /\ last.seen.ctx # None)
          => /\ last.backend # NotCalled
             /\ last.resp.status = 200 <=> ~last.backend.raised

\* a backend failure on share_spreadsheet, answered 400 with its text
C5_Witness ==
    /\ ToolRequest /\ last.backend.raised
    /\ last.req.endpoint = "share_spreadsheet"
    /\ last.resp.status = 400
    /\ last.resp.detail = "quota exceeded"

----------------------------------------------------------------------------
(* C6 *)

\* C6 (as claimed): a request without the key header is answered 401 "API Key
\* required"; a request whose key header is present and matches no secret of
\* the Key Store, the empty string included, is answered 401 "Invalid API
\* Key".  The code answers "API Key required" to an empty key, and 500 when
\* the key file holds a JSON array.
C6_TwoFailureMessages ==
    (ToolRequest /\ Decodable)
        => /\ ~last.req.header.present
                => (last.resp.status = 401 /\ last.resp.detail = "API Key required")
           /\ (last.req.header.present /\ Matches = {})
                => (last.resp.status = 401 /\ last.resp.detail = "Invalid API Key")

----------------------------------------------------------------------------
(* C7 *)

\* C7 (as claimed): spreadsheet_context is None at all times before startup
\* completes and at all times after shutdown has begun, the backend's
\* teardown and its failure included.  The code keeps the context while the
\* teardown runs, and for good when the teardown raises.
C7_ContextAbsentOutsideReady ==
    pc # "serving" => spreadsheet_context = None

----------------------------------------------------------------------------
(* C8 *)

\* the lifespan has yielded control to the server
Yielded == pc \in {"serving", "teardown", "stopped", "shutdown_failed"}

\* a step from a failed initialization leaves it failed
FailureIsFinal ==
    init_result \in InitFailures
        => (init_result' = init_result /\ pc' = "startup_failed")

\* C8: once the backend lifespan has raised or ended without a context,
\* spreadsheet_context is None, the lifespan has not yielded and never will,
\* and no request to a /tools/ route is answered with a backend call.
C8_InitFailureIsFatal ==
    /\ [](init_result \in InitFailures
            => /\ spreadsheet_context = None
               /\ ~Yielded
               /\ ToolRequest
                    => (last.resp.calls = 0 /\ last.backend = NotCalled
                            /\ last.resp.status # 200))
    /\ [][FailureIsFinal]_vars

\* an authenticated, well-formed request after the initialization failed
C8_Witness ==
    /\ init_result = "raises"
    /\ pc = "startup_failed"
    /\ ToolRequest /\ WellFormed /\ Authenticates
    /\ last.seen.phase = "startup_failed"
    /\ last.resp.status = 503

----------------------------------------------------------------------------
(* C9 *)

\* load_api_keys found no key file
Bootstrapped == load_result \in {"created", "create_failed"}

\* the file holds exactly the entries default and example_client
TwoDefaultEntries ==
    /\ keyFile.kind = "object"
    /\ Len(keyFile.items) = 2
    /\ {keyFile.items[i].cid : i \in 1..Len(keyFile.items)}
            = {"default", "example_client"}

\* C9 (as claimed): when no key file exists, after load_api_keys the file holds
\* exactly the entries default and example_client and API_KEYS equals the
\* file's contents.
C9_BootstrapWritesDefaults ==
    Bootstrapped => (TwoDefaultEntries /\ API_KEYS = Dict(keyFile.items))

\* C9 (amended): when no key file exists and the file can be written, after
\* load_api_keys the file holds exactly the entries default and example_client
\* and API_KEYS equals the file's contents; when the write fails, API_KEYS is
\* the empty mapping and no parseable key file exists.
C9_BootstrapWritesDefaultsIfWritable ==
    /\ load_result = "created"
          => (TwoDefaultEntries /\ API_KEYS = Dict(keyFile.items))
    /\ load_result = "create_failed"
          => (API_KEYS = Dict(<<>>) /\ keyFile.kind \in {"missing", "corrupt"})

\* the default file was written, and a request with the default key passed
\* the Authenticator as client "default"
C9_Witness ==
    /\ load_result = "created"
    /\ TwoDefaultEntries
    /\ ToolRequest
    /\ last.req.header = Header("sk-default-key-change-this")
    /\ last.resp.status = 200
    /\ last.resp.client_id = "default"

----------------------------------------------------------------------------
(* C10 *)

----------------------------------------------------------------------------
(* C11 *)

\* the result field of each endpoint, as the endpoint table names it
ResultFieldOf(e) ==
    CASE e = "get_sheet_data" -> "data"
      [] e = "get_sheet_formulas" -> "formulas"
      [] e = "create_spreadsheet" -> "spreadsheet"
      [] e = "list_spreadsheets" -> "spreadsheets"
      [] e = "list_sheets" -> "sheets"
      [] OTHER -> "result"

\* the backend call of the request returned
BackendReturned == last.backend # NotCalled /\ ~last.backend.raised

\* C11: a success response of a /tools/ route carries client_id and the one
\* result field the endpoint table names, holding what the backend operation
\* returned, unmodified; and a request that authenticates, is well-formed and
\* finds the context gets that response whenever its backend call returns.
C11_SuccessEnvelope ==
    /\ (ToolRequest /\ last.resp.status = 200)
          => /\ BackendReturned
             /\ last.resp.field = ResultFieldOf(last.req.endpoint)
             /\ last.resp.result = last.backend.value
             /\ last.resp.client_id \in Owners
             /\ last.resp.detail = ""
    /\ (ToolRequest /\ BackendReturned) => last.resp.status = 200

\* update_cells with the grid [[1,2],[3,4]], echoed by the backend and
\* returned under "result"
C11_Witness ==
    /\ ToolRequest
    /\ last.req.endpoint = "update_cells"
    /\ last.resp.status = 200
    /\ last.resp.field = "result"
    /\ last.resp.client_id = "default"
    /\ "echoed" \in DOMAIN last.backend
    /\ last.resp.result = last.args
    /\ <<"data", <<"data", "[[1,2],[3,4]]">>>> \in last.resp.result

----------------------------------------------------------------------------
(* C12 *)

\* a response to a health request is on its way
HealthRequest == last # NoRequest /\ last.req.endpoint = "health"

\* C12: the health endpoint answers 200 in every lifecycle state, with or
\* without a key header and whatever the Key Store holds, without a backend
\* call; its context flag is true exactly when spreadsheet_context is not None.
C12_HealthAlwaysSucceeds ==
    HealthRequest
        => /\ last.resp.status = 200
           /\ last.resp.calls = 0
           /\ last.backend = NotCalled
           /\ last.resp.field = "context_initialized"
           /\ last.resp.result = "true" <=> last.seen.ctx # None

\* a health request without a key header, answered with flag false after the
\* backend's initialization failed
C12_Witness ==
    /\ HealthRequest
    /\ ~last.req.header.present
    /\ last.seen.phase = "startup_failed"
    /\ last.resp.status = 200
    /\ last.resp.result = "false"

----------------------------------------------------------------------------
(* C13 *)

\* a handler is inside its backend call
InBackendCall == calling # NoCall

\* C13 (as claimed): while the handler of one request waits on its backend
\* call, another request that has arrived, a health check included, can be
\* handled to completion before that call returns.  The handlers are
\* coroutines that call their tool function without await, so the one event
\* loop of the server is held until the call returns and no other request
\* is handled meanwhile.
C13_RequestsDoNotBlock ==
    InBackendCall => ENABLED (HandleRequest \/ EnterBackendCall)

----------------------------------------------------------------------------
(* C14 *)

\* the Key Store is not a mapping and a key is presented: the lookup raises
LookupRaises ==
    /\ last.seen.keys.kind # "dict"
    /\ last.req.header.present
    /\ last.req.header.value # ""

----------------------------------------------------------------------------
(* C15 *)

\* the defaults of the optional fields, as the request schemas state them
StatedDefault(f) ==
    CASE f = "role" -> "reader"
      [] f = "send_notification" -> "true"
      [] f = "append" -> "true"
      [] f = "include_grid_data" -> "false"
      [] OTHER -> "None"

\* the value the backend is to receive for a declared field of the request
Passed(f) ==
    IF f \in last.req.body.present
    THEN <<f, Literal(f, last.req.body.variant)>>
    ELSE <<f, StatedDefault(f)>>

\* the fields the request's route declares
Declared == Routes[last.req.endpoint].required \cup Routes[last.req.endpoint].optional

\* C15: a request to a /tools/ route causes at most one backend call: exactly
\* one when it authenticates, is well-formed and finds the context, none
\* otherwise, and none again after a failure; the call receives every
\* declared field with the value the request gave it, or with its default
\* when the request omitted it, and nothing else but the path parameter and
\* the context.
C15_OneBackendCall ==
    ToolRequest
        => /\ last.resp.calls \in {0, 1}
           /\ last.resp.calls = 1 <=> last.backend # NotCalled
           /\ last.resp.calls = 1
                 <=> (WellFormed /\ Authenticates /\ last.seen.ctx # None)
           /\ last.resp.calls = 1
                 => /\ \A f \in Declared : \E a \in last.args : a[2] = Passed(f)
                    /\ \A a \in last.args :
                          \/ a[2][1] \in Declared /\ a[2] = Passed(a[2][1])
                          \/ a = <<"ctx", <<"lifespan_context", last.seen.ctx>>>>
                          \/ /\ last.req.endpoint = "list_sheets"
                             /\ a = <<"spreadsheet_id",
                                      <<"spreadsheet_id", last.req.path>>>>
           /\ last.resp.calls = 0 => last.args = {}

\* share_spreadsheet without role and send_notification: one call, which
\* fails and is not repeated, with role "reader" and send_notification true
C15_Witness ==
    /\ ToolRequest
    /\ last.req.endpoint = "share_spreadsheet"
    /\ last.req.body.present = Routes["share_spreadsheet"].required
    /\ last.resp.calls = 1
    /\ last.backend.raised
    /\ <<"role", <<"role", "reader">>>> \in last.args
    /\ <<"send_notification", <<"send_notification", "true">>>> \in last.args

----------------------------------------------------------------------------
(* C16 *)

\* a step of request handling: a request is handled or its response leaves
RequestStep == last' # last \/ calling' # calling

\* request steps leave the Key Store, its file and the context alone; the
\* Key Store is assigned only by the one load of the lifespan's start, the
\* context only by a lifespan step, and not while the server stays Ready
FrameOfRequests ==
    /\ RequestStep
          => /\ API_KEYS' = API_KEYS
             /\ spreadsheet_context' = spreadsheet_context
             /\ keyFile' = keyFile
             /\ pc' = pc
    /\ (API_KEYS' # API_KEYS \/ load_result' # load_result \/ keyFile' # keyFile)
          => (pc = "start" /\ pc' = "initializing" /\ load_result = "not_run")
    /\ pc' = "start" => pc = "start"
    /\ spreadsheet_context' # spreadsheet_context
          => (pc' # pc /\ ~(pc = "serving" /\ pc' = "serving"))
    /\ (spreadsheet_context = None /\ spreadsheet_context' # None)
          => (pc = "initializing" /\ pc' = "serving" /\ load_result # "not_run")

\* C16: handling a request, health or tool, answered with success or with a
\* failure, leaves the Key Store and the context reference unchanged; only
\* the lifespan assigns them; the Key Store is loaded exactly once, before
\* the context becomes Ready; and the context is the same from Ready to
\* shutdown.
C16_RequestsLeaveGlobals ==
    /\ [][FrameOfRequests]_vars
    /\ [](pc = "serving" => (spreadsheet_context = Ctx /\ load_result # "not_run"))
    /\ [](last # NoRequest
            => (pc = last.seen.phase
                  => /\ API_KEYS = last.seen.keys
                     /\ spreadsheet_context = last.seen.ctx))

\* a tool request answered with a backend failure while Ready, with the Key
\* Store and the context as its handler read them
C16_Witness ==
    /\ ToolRequest
    /\ last.seen.phase = "serving" /\ pc = "serving"
    /\ last.resp.status = 400
    /\ last.resp.calls = 1
    /\ API_KEYS = last.seen.keys
    /\ API_KEYS.kind = "dict" /\ API_KEYS.items # <<>>
    /\ spreadsheet_context = Ctx

============================================================================
